---- MODULE Spec2Model ----
(***************************************************************************)
(* Model of the seeed_respeaker_stt audio pipeline.                        *)
(*                                                                         *)
(*  - Phrase segmenter: AudioStreamHandler.update_speaking_state           *)
(*    (src/audio/audio_stream_handler.py).  Specifications Spec, SpecCap   *)
(*    and SpecReplay drive it with sequences of (is_voice, chunk) calls.   *)
(*  - Capture / transfer queue / recognition: AudioHandler                 *)
(*    (src/audio_handler.py) with AudioStreamHandler.audio_callback and    *)
(*    AudioProcessor.  Specification SpecPipeline interleaves the capture  *)
(*    thread's callbacks with the main thread's calls.  SpecCapture runs   *)
(*    the callback alone over a denser set of frames, and SpecDriver runs  *)
(*    the callback against process_audio, both from the state in which     *)
(*    start_recording() has returned, with the calls observed.             *)
(*                                                                         *)
(* Sample counts are exact integers; samples_to_ms(x) > T is evaluated as  *)
(* x * 1000 > T * RATE, which is the same comparison without the division. *)
(* Times are integer milliseconds of the wall clock (time.time()).         *)
(***************************************************************************)
EXTENDS Integers, Sequences, FiniteSets, TLC

VARIABLES
    \* ---- phrase segmenter (update_speaking_state) ----
    state_data,     \* the state_data dict: is_speaking, voice_frames,
                    \* silence_frames, last_phrase_end, audio_buffer
    clock,          \* the wall clock, ms; time.time() reads it
    calls,          \* number of update_speaking_state calls made so far
    is_voice,       \* argument is_voice of the last call
    chunk_len,      \* len(audio_data) of the last call
    ret,            \* return value of the last call
    phrases,        \* observer: number of calls that returned True
    run_voice,      \* observer: samples of the current contiguous voiced run
    run_silence,    \* observer: samples of silence received since that run
    run_events,     \* observer: True returns since that run began
    run_speaking,   \* observer: is_speaking after the run's last voiced chunk
    phrase_voiced,  \* observer: voiced samples since the phrase started
    phrase_silent,  \* observer: silent samples since the phrase started
    \* ---- replay of the same recorded inputs (second run) ----
    replay_data,    \* state_data of the replayed run
    replay_clock,   \* the wall clock of the replayed run
    replay_ret,     \* return value of the replayed run's last call
    \* ---- AudioHandler: capture thread and main thread ----
    pc,             \* where the main thread is in AudioHandler's methods
    after,          \* where the running cleanup() returns to
    audio,          \* self.audio: the PyAudio instance, or None
    audio_queue,    \* self.audio_queue: the chunks put and not yet got
    is_running,     \* self.is_running
    stream,         \* self.stream: None, or the stream and its state
    model,          \* self.model: unset, loaded or None
    recognizer,     \* self.recognizer: unset, ready or None
    last_partial,   \* AudioProcessor._last_partial
    result,         \* return value of the last process_audio call
    cb_status,      \* flag returned by the last audio_callback
    cleanup_successful, \* the local of the running cleanup()
    cleanup_ret,    \* return value of the last cleanup() call
    callbacks,      \* number of audio_callback invocations so far
    polls,          \* number of process_audio calls so far
    cleanups,       \* number of cleanup() calls completed so far
    recognizer_rate, \* sample rate the KaldiRecognizer was created with
    \* ---- observers of the capture and recognition steps ----
    cb_frame,       \* observer: in_data of the last audio_callback
    cb_put,         \* observer: the chunks that callback put on the queue
    rec_kind,       \* observer: what the last process_audio call did
    rec_text,       \* observer: text the recognizer returned in that call
    fed,            \* observer: the AcceptWaveform calls made so far
    rec_read,       \* observer: the result that call read from the recognizer
    enqueued,       \* observer: every chunk the callbacks have put, in order
    dequeued,       \* observer: every chunk process_audio has got, in order
    \* ---- AudioProcessor.resample_audio, called on its own ----
    rs_in,          \* len(audio_data) of the last resample_audio call
    rs_raised,      \* whether signal.resample (or its import) raised in it
    rs_out,         \* len of the array that call returned
    \* ---- single-file variant (seeed_respeaker_stt.py): its capture ----
    sf_channels,    \* config.CHANNELS of the variant
    sf_status,      \* not_started, or the flag its last callback returned
    sf_queue,       \* the variant's audio_queue
    sf_frame,       \* in_data of the variant's last _audio_callback
    sf_put,         \* the chunks that callback put on the queue
    sf_callbacks,   \* number of _audio_callback invocations so far
    \* ---- the sample rates in use ----
    config_rate,    \* self.config.RATE, shared by handler and device manager
    stream_rate,    \* rate= the input stream was opened with, 0 before
    fed_rates       \* observer: per AcceptWaveform call, the rate of the
                    \* chunk and the rate of the recognizer

segVars == <<state_data, clock, calls, is_voice, chunk_len, ret, phrases,
             run_voice, run_silence, run_events, run_speaking,
             phrase_voiced, phrase_silent>>
replayVars == <<replay_data, replay_clock, replay_ret>>
pipeVars == <<pc, after, audio, audio_queue, is_running, stream, model,
              recognizer, last_partial, result, cb_status,
              cleanup_successful, cleanup_ret, callbacks, polls, cleanups,
              recognizer_rate>>
resVars == <<rs_in, rs_raised, rs_out>>
sfVars == <<sf_channels, sf_status, sf_queue, sf_frame, sf_put, sf_callbacks>>
rateVars == <<config_rate, stream_rate, fed_rates>>
obsVars == <<cb_frame, cb_put, rec_kind, rec_text, fed, rec_read, enqueued,
             dequeued, resVars, sfVars, rateVars>>
vars == <<segVars, replayVars, pipeVars, obsVars>>

----------------------------------------------------------------------------
(* Program constants *)

RATE == 48000
MIN_PHRASE_MS == 250
MAX_PHRASE_MS == 10000
SILENCE_MS == 300
MIN_GAP_MS == 300

CHANNELS == 2
VOSK_RATE == 16000
FULL_SCALE == 32768
\* VAD_THRESHOLD in thousandths: 0.01, the value AudioHandler copies from
\* the ConfigManager over AudioConfig's default.
VAD_THRESHOLD_PER_MILLE == 10

(* Bounds of the model *)

MaxCalls == 8
MaxReplayCalls == 6
MaxCallbacks == 3
MaxPolls == 3
MaxCleanups == 2
MaxCaptureFrames == 2
MaxResampleLen == 100
MaxVariantCallbacks == 2

\* len(audio_data) of the chunks fed to the segmenter: 50 ms and 250 ms at
\* 48 kHz, so that 250 ms of voice and 300 ms of silence are hit exactly.
ChunkLens == {2400, 12000}
\* Long chunks (2.5 s and 5 s), to reach MAX_PHRASE_MS within MaxCalls calls.
LongChunkLens == {120000, 240000}
\* Advance of the wall clock between two calls, ms.
ClockSteps == {100, 400}

----------------------------------------------------------------------------
(* update_speaking_state *)

\* samples_to_ms(x) > ms
LongerThanMs(x, ms) == x * 1000 > ms * RATE

\* len(state_data['audio_buffer']); the buffer is kept as the sequence of
\* the lengths of the chunks that were extend()-ed into it.
RECURSIVE SumSeq(_)
SumSeq(s) == IF s = <<>> THEN 0 ELSE Head(s) + SumSeq(Tail(s))

BufferLen(sd) == SumSeq(sd.audio_buffer)

\* Mutant: the chunk is appended whether or not a phrase is open.
ExtendBuffer_Always(sd, n) ==
    [sd EXCEPT !.audio_buffer = Append(@, n)]

\* if state_data['is_speaking']: state_data['audio_buffer'].extend(audio_data)
ExtendBuffer(sd, n) ==
    IF sd.is_speaking
    THEN [sd EXCEPT !.audio_buffer = Append(@, n)]
    ELSE sd

\* Mutant: the gap test is not strict.
GapElapsed_NotStrict(current_time, sd) ==
    (current_time - sd.last_phrase_end) >= MIN_GAP_MS

\* the guard of the Idle -> Speaking transition
GapElapsed(current_time, sd) ==
    (current_time - sd.last_phrase_end) > MIN_GAP_MS

\* the is_voice branch
VoiceBranch(n, current_time, sd) ==
    LET counted == [sd EXCEPT !.voice_frames = @ + n, !.silence_frames = 0]
    IN  IF ~counted.is_speaking /\ GapElapsed(current_time, counted)
        THEN [counted EXCEPT !.is_speaking = TRUE, !.audio_buffer = <<>>]
        ELSE counted

\* Mutant: the phrase-end test does not look at is_speaking.
PhraseEnds_WhileIdle(sd) ==
    /\ LongerThanMs(sd.silence_frames, SILENCE_MS)
    /\ LongerThanMs(sd.voice_frames, MIN_PHRASE_MS)

\* Mutant: the phrase-end test does not require 250 ms of voice.
PhraseEnds_NoMinimum(sd) ==
    /\ sd.is_speaking
    /\ LongerThanMs(sd.silence_frames, SILENCE_MS)

\* the phrase-end test made in the silence branch
PhraseEnds(sd) ==
    /\ sd.is_speaking
    /\ LongerThanMs(sd.silence_frames, SILENCE_MS)
    /\ LongerThanMs(sd.voice_frames, MIN_PHRASE_MS)

\* Mutant: silent chunks are counted but never appended to the buffer.
UpdateSpeakingState_DropSilence(voice, n, current_time, sd) ==
    IF voice
    THEN [sd |-> ExtendBuffer(VoiceBranch(n, current_time, sd), n),
          ret |-> FALSE]
    ELSE LET counted == [sd EXCEPT !.silence_frames = @ + n]
         IN  IF PhraseEnds(counted)
             THEN [sd |-> [counted EXCEPT !.is_speaking = FALSE,
                                          !.last_phrase_end = current_time],
                   ret |-> TRUE]
             ELSE [sd |-> counted, ret |-> FALSE]

\* The whole function: the new state_data and the return value.
UpdateSpeakingState(voice, n, current_time, sd) ==
    IF voice
    THEN [sd |-> ExtendBuffer(VoiceBranch(n, current_time, sd), n),
          ret |-> FALSE]
    ELSE LET counted == [sd EXCEPT !.silence_frames = @ + n]
         IN  IF PhraseEnds(counted)
             THEN [sd |-> [counted EXCEPT !.is_speaking = FALSE,
                                          !.last_phrase_end = current_time],
                   ret |-> TRUE]
             ELSE [sd |-> ExtendBuffer(counted, n), ret |-> FALSE]

----------------------------------------------------------------------------
(* Initial state *)

\* A fresh state_data: Idle, nothing counted, nothing buffered, no phrase
\* ended yet (last_phrase_end = 0).
InitStateData ==
    [is_speaking |-> FALSE, voice_frames |-> 0, silence_frames |-> 0,
     last_phrase_end |-> 0, audio_buffer |-> <<>>]

\* The wall clock starts more than MIN_GAP_MS after the initial
\* last_phrase_end, as time.time() does after a last_phrase_end of 0: the
\* first voiced chunk opens a phrase.
InitSegmenter ==
    /\ state_data = InitStateData
    /\ clock = 1000
    /\ calls = 0
    /\ is_voice = FALSE
    /\ chunk_len = 0
    /\ ret = FALSE
    /\ phrases = 0
    /\ run_voice = 0
    /\ run_silence = 0
    /\ run_events = 0
    /\ run_speaking = FALSE
    /\ phrase_voiced = 0
    /\ phrase_silent = 0

InitReplay ==
    /\ replay_data = InitStateData
    /\ replay_clock = 1000
    /\ replay_ret = FALSE


----------------------------------------------------------------------------
(* One call of update_speaking_state(voice, chunk of n samples) made when   *)
(* the wall clock has advanced by dt.                                       *)

Call(voice, n, dt) ==
    LET now == clock + dt
        r == UpdateSpeakingState(voice, n, now, state_data)
        started == ~state_data.is_speaking /\ r.sd.is_speaking
        newRun == voice /\ (calls = 0 \/ ~is_voice)
    IN  /\ calls < MaxCalls
        /\ calls' = calls + 1
        /\ clock' = now
        /\ state_data' = r.sd
        /\ ret' = r.ret
        /\ is_voice' = voice
        /\ chunk_len' = n
        /\ phrases' = phrases + (IF r.ret THEN 1 ELSE 0)
        /\ run_voice' = IF voice
                        THEN (IF newRun THEN n ELSE run_voice + n)
                        ELSE run_voice
        /\ run_silence' = IF voice THEN 0 ELSE run_silence + n
        /\ run_events' = IF newRun THEN 0
                         ELSE run_events + (IF r.ret THEN 1 ELSE 0)
        /\ run_speaking' = IF voice THEN r.sd.is_speaking ELSE run_speaking
        /\ phrase_voiced' =
              IF started THEN n
              ELSE IF state_data.is_speaking /\ voice THEN phrase_voiced + n
              ELSE phrase_voiced
        /\ phrase_silent' =
              IF started THEN 0
              ELSE IF state_data.is_speaking /\ ~voice THEN phrase_silent + n
              ELSE phrase_silent

UpdateStep ==
    /\ \E voice \in BOOLEAN, n \in ChunkLens, dt \in ClockSteps :
          Call(voice, n, dt)
    /\ UNCHANGED <<replayVars, pipeVars, obsVars>>

UpdateLongStep ==
    /\ \E voice \in BOOLEAN, n \in LongChunkLens, dt \in ClockSteps :
          Call(voice, n, dt)
    /\ UNCHANGED <<replayVars, pipeVars, obsVars>>

\* The recorded inputs (voice, n) are fed to a second run; each run reads its
\* own wall clock.
ReplayStep ==
    \E voice \in BOOLEAN, n \in ChunkLens, dt \in ClockSteps,
       rdt \in ClockSteps :
       LET rnow == replay_clock + rdt
           rr == UpdateSpeakingState(voice, n, rnow, replay_data)
       IN  /\ calls < MaxReplayCalls
           /\ Call(voice, n, dt)
           /\ replay_clock' = rnow
           /\ replay_data' = rr.sd
           /\ replay_ret' = rr.ret
           /\ UNCHANGED <<pipeVars, obsVars>>


----------------------------------------------------------------------------
(* AudioStreamHandler.audio_callback *)

\* The 16-bit samples a captured frame is made of.
Samples == {-32768, -400, 0, 327, 400}

\* in_data as int16 samples, interleaved by channel: one stereo pair, or a
\* single sample (not a multiple of the channel count).
Frames == {<<l, r>> : l \in Samples, r \in Samples} \cup {<<x>> : x \in Samples}

\* np.abs on int16: -32768 has no positive counterpart and stays -32768.
Abs16(x) == IF x = -FULL_SCALE THEN x ELSE IF x < 0 THEN -x ELSE x

\* .mean(axis=1).astype(np.int16) of one stereo pair: the float mean is cut
\* towards zero.
\* The mean taken with Python's integer floor division, (l + r) // 2.
MonoSample_Floor(l, r) == (l + r) \div 2

MonoSample(l, r) ==
    LET sum == l + r
    IN  IF sum >= 0 THEN sum \div 2 ELSE -((-sum) \div 2)

\* audio_data.reshape(-1, 2).mean(axis=1).astype(np.int16)
Downmix(frame) ==
    [i \in 1..(Len(frame) \div CHANNELS) |->
        MonoSample(frame[2 * i - 1], frame[2 * i])]

RECURSIVE SumAbs16(_)
SumAbs16(chunk) ==
    IF chunk = <<>> THEN 0 ELSE Abs16(Head(chunk)) + SumAbs16(Tail(chunk))

\* np.abs(audio_data).mean() / 32768.0 > VAD_THRESHOLD
\* The level compared with half the threshold.
VoiceDetected_HalfThreshold(chunk) ==
    /\ chunk # <<>>
    /\ SumAbs16(chunk) * 2000
           > VAD_THRESHOLD_PER_MILLE * FULL_SCALE * Len(chunk)

VoiceDetected(chunk) ==
    /\ chunk # <<>>
    /\ SumAbs16(chunk) * 1000 > VAD_THRESHOLD_PER_MILLE * FULL_SCALE * Len(chunk)

\* self.audio_queue = queue.Queue(): maxsize is 0, the queue is unbounded
QUEUE_MAXSIZE == 0

\* A queue created with room for two chunks only.
QueueFull_TwoSlots(q) == Len(q) >= 2

\* Queue.put(item) waits while the queue is full: 0 < maxsize <= qsize
QueueFull(q) == QUEUE_MAXSIZE > 0 /\ Len(q) >= QUEUE_MAXSIZE

\* A put that places the item at the head of the queue.
QueuePut_AtHead(q, chunk) == <<chunk>> \o q

\* once put may proceed, it appends the item
QueuePut(q, chunk) == Append(q, chunk)

\* audio_callback(in_data, ...) run to its return: it can return only if
\* its put, when it makes one, does not have to wait
AudioCallbackOn(frame) ==
    /\ stream = "active"
    /\ IF Len(frame) % CHANNELS # 0
       THEN \* reshape raises; the except branch returns paComplete
            /\ cb_status' = "paComplete"
            /\ stream' = "complete"
            /\ UNCHANGED audio_queue
       ELSE /\ VoiceDetected(Downmix(frame)) => ~QueueFull(audio_queue)
            /\ cb_status' = "paContinue"
            /\ audio_queue' = IF VoiceDetected(Downmix(frame))
                              THEN QueuePut(audio_queue, Downmix(frame))
                              ELSE audio_queue
            /\ UNCHANGED stream
    /\ UNCHANGED <<segVars, replayVars, pc, after, audio, is_running, model,
                   recognizer, last_partial, result, cleanup_successful,
                   cleanup_ret, polls, cleanups, recognizer_rate>>

\* The stream invokes the callback while it is active.
AudioCallback ==
    /\ callbacks < MaxCallbacks
    /\ callbacks' = callbacks + 1
    /\ \E frame \in Frames : AudioCallbackOn(frame)
    /\ UNCHANGED obsVars

\* The same callback on a denser set of frames, its input and its effect on
\* the queue observed.
CaptureSamples == {-32768, -32767, -328, -1, 0, 1, 327, 328, 329, 330,
                   32767}

\* frames of two stereo pairs, both channels equal, for mono chunks of two
\* samples
LongFrameSamples == {-32768, 0, 327, 328, 700, 32767}

CaptureFrames ==
    {<<l, r>> : l \in CaptureSamples, r \in CaptureSamples}
        \cup {<<a, a, b, b>> : a \in LongFrameSamples, b \in LongFrameSamples}

CaptureFrame ==
    /\ callbacks < MaxCaptureFrames
    /\ callbacks' = callbacks + 1
    /\ \E frame \in CaptureFrames :
          /\ AudioCallbackOn(frame)
          /\ cb_frame' = frame
          /\ cb_put' = SubSeq(audio_queue', Len(audio_queue) + 1,
                              Len(audio_queue'))
    /\ UNCHANGED <<rec_kind, rec_text, fed, rec_read, enqueued, dequeued,
                   resVars, sfVars, rateVars>>

\* frames that give three different voiced chunks, a silent frame and a
\* malformed one
DriverFrames == {<<400, 400>>, <<327, 400>>, <<-32768, -400>>, <<0, 0>>,
                 <<400>>}

\* The callback of the running stream, every chunk it puts recorded.
AudioCallbackObserved ==
    /\ callbacks < MaxCallbacks
    /\ callbacks' = callbacks + 1
    /\ \E frame \in DriverFrames :
          /\ AudioCallbackOn(frame)
          /\ enqueued' = IF Len(frame) % CHANNELS = 0
                             /\ VoiceDetected(Downmix(frame))
                          THEN Append(enqueued, Downmix(frame))
                          ELSE enqueued
    /\ UNCHANGED <<cb_frame, cb_put, rec_kind, rec_text, fed, rec_read,
                   dequeued, resVars, sfVars, rateVars>>

----------------------------------------------------------------------------
(* AudioProcessor: results of the recognizer *)

\* A text is the sequence of its words; None is <<>> (no text returned is
\* ever empty).
None == <<>>

Texts == {<<>>, <<"yes">>, <<"Yes">>, <<"go">>, <<"turn", "left">>,
          <<"turn", "the", "light">>, <<"turn", "the", "light", "on">>}

\* What Result() / PartialResult() hand back: a JSON payload with a text,
\* or one json.loads cannot decode.
Payloads == [ok : {TRUE}, text : Texts] \cup {[ok |-> FALSE, text |-> <<>>]}

Lower(w) == IF w = "Yes" THEN "yes" ELSE w

AllowedSingleWords == {"yes", "no", "okay", "thanks"}

\* The allow-list compared without text.lower().
ProcessRecognitionResult_CaseSensitive(text) ==
    IF text # <<>> /\ (Len(text) > 1 \/ text[1] \in AllowedSingleWords)
    THEN text
    ELSE None

\* process_recognition_result, given the decoded text
ProcessRecognitionResult(text) ==
    IF text # <<>> /\ (Len(text) > 1 \/ Lower(text[1]) \in AllowedSingleWords)
    THEN text
    ELSE None

\* The test without the comparison against _last_partial.
PartialAccepted_NoDedupe(text, last) ==
    text # <<>> /\ Len(text) > 2

\* the test of process_partial_result
PartialAccepted(text, last) ==
    text # <<>> /\ Len(text) > 2 /\ text # last

\* process_partial_result: the value returned and the new _last_partial
ProcessPartialResult(text, last) ==
    IF PartialAccepted(text, last)
    THEN [ret |-> <<"(Partial)">> \o text, last |-> text]
    ELSE [ret |-> None, last |-> last]

----------------------------------------------------------------------------
(* Single-file variant, seeed_respeaker_stt.py: _setup_devices and          *)
(* _audio_callback                                                          *)

\* VAD_THRESHOLD = 0.001 in the variant's AudioConfig
VARIANT_VAD_THRESHOLD_PER_MILLE == 1

\* maxInputChannels of the device selected
DeviceChannels == {1, 2, 4}

\* config.CHANNELS = min(device['maxInputChannels'], 2), then
\* start_recording() opens the stream with that many channels and starts it
SingleFileSetup ==
    /\ sf_status = "not_started"
    /\ \E maxInputChannels \in DeviceChannels :
          sf_channels' = IF maxInputChannels < 2 THEN maxInputChannels ELSE 2
    /\ sf_status' = "paContinue"
    /\ UNCHANGED <<segVars, replayVars, pipeVars, cb_frame, cb_put, rec_kind,
                   rec_text, fed, rec_read, enqueued, dequeued, resVars,
                   rateVars, sf_queue, sf_frame, sf_put, sf_callbacks>>

SingleFileSamples == {0, 20, 700}

\* in_data of a stream of the given channel count: frame_count (1 or 2)
\* times channels samples
SingleFileFrames(channels) ==
    UNION {[1 .. (frame_count * channels) -> SingleFileSamples] :
              frame_count \in {1, 2}}

\* audio_data.reshape(-1, 2).mean(axis=1).astype(np.int16), whatever
\* config.CHANNELS is
SingleFileMono(frame) ==
    [i \in 1 .. (Len(frame) \div 2) |->
        MonoSample(frame[2 * i - 1], frame[2 * i])]

\* np.abs of the float32 samples: no wrap
RECURSIVE SumAbsFloat(_)
SumAbsFloat(chunk) ==
    IF chunk = <<>> THEN 0
    ELSE (IF Head(chunk) < 0 THEN -Head(chunk) ELSE Head(chunk))
            + SumAbsFloat(Tail(chunk))

\* np.abs(mono_data / 32768.0).mean() > VAD_THRESHOLD
SingleFileVoice(chunk) ==
    /\ chunk # <<>>
    /\ SumAbsFloat(chunk) * 1000
           > VARIANT_VAD_THRESHOLD_PER_MILLE * FULL_SCALE * Len(chunk)

\* _audio_callback(in_data, ...) of the running stream
SingleFileCallback ==
    /\ sf_status = "paContinue"
    /\ sf_callbacks < MaxVariantCallbacks
    /\ sf_callbacks' = sf_callbacks + 1
    /\ \E frame \in SingleFileFrames(sf_channels) :
          /\ sf_frame' = frame
          /\ IF Len(frame) % 2 # 0
             THEN \* reshape(-1, 2) raises; the except branch returns
                  \* paComplete
                  /\ sf_status' = "paComplete"
                  /\ sf_put' = <<>>
                  /\ UNCHANGED sf_queue
             ELSE /\ sf_status' = "paContinue"
                  /\ sf_put' = IF SingleFileVoice(SingleFileMono(frame))
                               THEN <<SingleFileMono(frame)>>
                               ELSE <<>>
                  /\ sf_queue' = sf_queue \o sf_put'
    /\ UNCHANGED <<segVars, replayVars, pipeVars, cb_frame, cb_put, rec_kind,
                   rec_text, fed, rec_read, enqueued, dequeued, resVars,
                   rateVars, sf_channels>>

----------------------------------------------------------------------------
(* AudioProcessor.resample_audio *)

\* The length computed with round() instead of int().
ResampledLen_Rounded(n) == (2 * n * VOSK_RATE + RATE) \div (2 * RATE)

\* resampled_len = int(len(audio_data) * (VOSK_RATE / RATE)): int() drops
\* the fraction
ResampledLen(n) == (n * VOSK_RATE) \div RATE

\* len of what resample_audio returns: signal.resample(audio_data, num) has
\* num samples; when the try block raises, the except branch returns
\* audio_data itself
ResampleAudioLen(n, raised) == IF raised THEN n ELSE ResampledLen(n)

\* lengths of the arrays passed: every short one, and the chunk sizes of
\* AudioConfig (1024) and of the configuration manager (2000)
ResampleLens == (0 .. MaxResampleLen) \cup {1024, 2000}

\* One call resample_audio(audio_data) with len(audio_data) = n.
ResampleCall ==
    /\ \E n \in ResampleLens, raised \in BOOLEAN :
          /\ rs_in' = n
          /\ rs_raised' = raised
          /\ rs_out' = ResampleAudioLen(n, raised)
    /\ UNCHANGED <<segVars, replayVars, pipeVars, cb_frame, cb_put, rec_kind,
                   rec_text, fed, rec_read, enqueued, dequeued, sfVars,
                   rateVars>>

----------------------------------------------------------------------------
(* AudioHandler.process_audio *)

RECURSIVE MaxAbs16(_)
MaxAbs16(chunk) ==
    IF Len(chunk) = 1 THEN Abs16(chunk[1])
    ELSE LET m == MaxAbs16(Tail(chunk))
         IN  IF Abs16(Head(chunk)) > m THEN Abs16(Head(chunk)) ELSE m

\* The quiet check made against twice the threshold.
TooQuiet_TwiceThreshold(chunk) ==
    MaxAbs16(chunk) * 1000 < 2 * VAD_THRESHOLD_PER_MILLE * FULL_SCALE

\* np.max(np.abs(audio_data)) < VAD_THRESHOLD * 32768
TooQuiet(chunk) ==
    MaxAbs16(chunk) * 1000 < VAD_THRESHOLD_PER_MILLE * FULL_SCALE

\* What a process_audio call does with the queue as it finds it, the
\* recognizer answering AcceptWaveform with accepted and then handing back
\* payload.
PollKind(accepted, payload) ==
    IF audio_queue = <<>> THEN "empty"
    ELSE IF TooQuiet(Head(audio_queue)) THEN "quiet"
    ELSE IF recognizer # "ready" THEN "raised"
    ELSE IF ~payload.ok THEN "undecodable"
    ELSE IF accepted THEN "final"
    ELSE "partial"

\* The call with an except branch that also resets _last_partial.
ProcessAudioOn_ErrorResetsPartial(accepted, payload) ==
    /\ pc \in {"ready", "recording", "done"}
    /\ polls < MaxPolls
    /\ polls' = polls + 1
    /\ IF audio_queue = <<>>
       THEN /\ result' = None
            /\ UNCHANGED <<audio_queue, last_partial>>
       ELSE /\ audio_queue' = Tail(audio_queue)
            /\ IF TooQuiet(Head(audio_queue))
               THEN /\ result' = None
                    /\ UNCHANGED last_partial
               ELSE IF recognizer # "ready" \/ ~payload.ok
               THEN /\ result' = None
                    /\ last_partial' = None
               ELSE IF accepted
               THEN /\ result' = ProcessRecognitionResult(payload.text)
                    /\ UNCHANGED last_partial
               ELSE LET p == ProcessPartialResult(payload.text, last_partial)
                    IN  /\ result' = p.ret
                        /\ last_partial' = p.last
    /\ UNCHANGED <<segVars, replayVars, pc, after, audio, is_running, stream,
                   model, recognizer, cb_status, cleanup_successful,
                   cleanup_ret, callbacks, cleanups, recognizer_rate>>

\* The call with a queue.Empty branch that also resets _last_partial.
ProcessAudioOn_EmptyResetsPartial(accepted, payload) ==
    /\ pc \in {"ready", "recording", "done"}
    /\ polls < MaxPolls
    /\ polls' = polls + 1
    /\ IF audio_queue = <<>>
       THEN /\ result' = None
            /\ last_partial' = None
            /\ UNCHANGED audio_queue
       ELSE /\ audio_queue' = Tail(audio_queue)
            /\ IF TooQuiet(Head(audio_queue)) \/ recognizer # "ready"
                  \/ ~payload.ok
               THEN /\ result' = None
                    /\ UNCHANGED last_partial
               ELSE IF accepted
               THEN /\ result' = ProcessRecognitionResult(payload.text)
                    /\ UNCHANGED last_partial
               ELSE LET p == ProcessPartialResult(payload.text, last_partial)
                    IN  /\ result' = p.ret
                        /\ last_partial' = p.last
    /\ UNCHANGED <<segVars, replayVars, pc, after, audio, is_running, stream,
                   model, recognizer, cb_status, cleanup_successful,
                   cleanup_ret, callbacks, cleanups, recognizer_rate>>

\* The body of process_audio, from get_nowait to its return.
ProcessAudioBody(accepted, payload) ==
    /\ pc \in {"ready", "recording", "done"}
    /\ IF audio_queue = <<>>
       THEN \* get_nowait raises queue.Empty
            /\ result' = None
            /\ UNCHANGED <<audio_queue, last_partial>>
       ELSE /\ audio_queue' = Tail(audio_queue)
            /\ IF TooQuiet(Head(audio_queue)) \/ recognizer # "ready"
               THEN \* skipped, or self.recognizer is None and the call raises
                    /\ result' = None
                    /\ UNCHANGED last_partial
               ELSE IF ~payload.ok
               THEN \* json.loads raises, caught by process_audio
                    /\ result' = None
                    /\ UNCHANGED last_partial
               ELSE IF accepted
               THEN /\ result' = ProcessRecognitionResult(payload.text)
                    /\ UNCHANGED last_partial
               ELSE LET p == ProcessPartialResult(payload.text, last_partial)
                    IN  /\ result' = p.ret
                        /\ last_partial' = p.last
    /\ UNCHANGED <<segVars, replayVars, pc, after, audio, is_running, stream,
                   model, recognizer, cb_status, cleanup_successful,
                   cleanup_ret, callbacks, cleanups, recognizer_rate>>

\* One of a bounded number of process_audio calls.
ProcessAudioOn(accepted, payload) ==
    /\ polls < MaxPolls
    /\ polls' = polls + 1
    /\ ProcessAudioBody(accepted, payload)

ProcessAudio ==
    /\ \E accepted \in BOOLEAN, payload \in Payloads :
          ProcessAudioOn(accepted, payload)
    /\ UNCHANGED obsVars

\* The same call, observed: what it did, the text the recognizer returned,
\* and the chunk it passed to AcceptWaveform.  process_audio passes
\* audio_data.tobytes(), audio_data being what get_nowait returned; it makes
\* no call to resample_audio.
ObservePoll(accepted, payload) ==
    LET kind == PollKind(accepted, payload)
        reached == kind \in {"undecodable", "final", "partial"}
    IN  /\ rec_kind' = kind
        /\ rec_text' = IF kind \in {"final", "partial"}
                       THEN payload.text ELSE None
        /\ fed' = IF reached
                  THEN Append(fed, [chunk |-> Head(audio_queue),
                                    resampled |-> FALSE])
                  ELSE fed
        /\ rec_read' = IF ~reached THEN "none"
                       ELSE IF accepted THEN "Result"
                       ELSE "PartialResult"
        /\ dequeued' = IF kind = "empty" THEN dequeued
                       ELSE Append(dequeued, Head(audio_queue))
        /\ UNCHANGED <<cb_frame, cb_put, enqueued, resVars, sfVars>>

ProcessAudioObserved ==
    \E accepted \in BOOLEAN, payload \in Payloads :
        /\ ProcessAudioOn(accepted, payload)
        /\ ObservePoll(accepted, payload)
        /\ UNCHANGED rateVars

\* The same call, the rates in use at its AcceptWaveform recorded: the chunk
\* was captured by the stream at the rate the stream was opened with.
ProcessAudioRated ==
    \E accepted \in BOOLEAN, payload \in Payloads :
        /\ ProcessAudioOn(accepted, payload)
        /\ fed_rates' =
              IF PollKind(accepted, payload)
                     \in {"undecodable", "final", "partial"}
              THEN fed_rates \cup {[chunk |-> stream_rate,
                                    recognizer |-> recognizer_rate]}
              ELSE fed_rates
        /\ UNCHANGED <<cb_frame, cb_put, rec_kind, rec_text, fed, rec_read,
                       enqueued, dequeued, resVars, sfVars, config_rate,
                       stream_rate>>

\* One iteration of the main loop, which calls process_audio for as long as
\* the program runs (while True: result = audio_handler.process_audio()).
MainLoopIteration ==
    \E accepted \in BOOLEAN, payload \in Payloads :
        /\ ProcessAudioBody(accepted, payload)
        /\ ObservePoll(accepted, payload)
        /\ UNCHANGED <<polls, rateVars>>

----------------------------------------------------------------------------
(* AudioHandler.__init__ (from the try block on), start_recording, cleanup *)

\* The exception leaves without cleanup() being run.
EnterCleanup_NotRun(returnTo) ==
    /\ pc' = returnTo
    /\ is_running' = FALSE
    /\ UNCHANGED <<after, cleanup_successful>>

\* self.cleanup() is entered: cleanup_successful = True, is_running = False
EnterCleanup(returnTo) ==
    /\ pc' = "cleanup_queue"
    /\ after' = returnTo
    /\ cleanup_successful' = TRUE
    /\ is_running' = FALSE

\* self.device_manager.setup_devices(), which raises when no device opens
SetupDevices ==
    /\ pc = "setup_devices"
    /\ \E found \in BOOLEAN :
          IF found
          THEN pc' = "initialize_vosk"
                 /\ UNCHANGED <<after, cleanup_successful, is_running>>
          ELSE EnterCleanup("raised_init")
    /\ UNCHANGED <<segVars, replayVars, audio, audio_queue, stream, model,
                   recognizer, last_partial, result, cb_status, cleanup_ret,
                   callbacks, polls, cleanups, recognizer_rate, obsVars>>

\* self._initialize_vosk(): Model(...) or KaldiRecognizer(...) may raise
InitializeVosk ==
    /\ pc = "initialize_vosk"
    /\ \E outcome \in {"ok", "model_raises", "recognizer_raises"} :
          /\ model' = IF outcome = "model_raises" THEN model ELSE "loaded"
          /\ recognizer' = IF outcome = "ok" THEN "ready" ELSE recognizer
          \* KaldiRecognizer(self.model, self.config.RATE)
          /\ recognizer_rate' = IF outcome = "ok" THEN config_rate
                                ELSE recognizer_rate
          /\ IF outcome = "ok"
             THEN pc' = "ready"
                    /\ UNCHANGED <<after, cleanup_successful, is_running>>
             ELSE EnterCleanup("raised_init")
    /\ UNCHANGED <<segVars, replayVars, audio, audio_queue, stream,
                   last_partial, result, cb_status, cleanup_ret, callbacks,
                   polls, cleanups, obsVars>>

\* start_recording(): audio.open(..., rate=self.config.RATE, start=False),
\* then start_stream()
StartRecordingOn(outcome) ==
    /\ pc = "ready"
    /\ stream' = CASE outcome = "ok" -> "active"
                   [] outcome = "open_raises" -> stream
                   [] outcome = "start_raises" -> "stopped"
    /\ IF outcome = "ok"
       THEN pc' = "recording" /\ is_running' = TRUE
              /\ UNCHANGED <<after, cleanup_successful>>
       ELSE EnterCleanup("raised_start")
    /\ UNCHANGED <<segVars, replayVars, audio, audio_queue, model, recognizer,
                   last_partial, result, cb_status, cleanup_ret, callbacks,
                   polls, cleanups, recognizer_rate>>

StartRecording ==
    /\ \E outcome \in {"ok", "open_raises", "start_raises"} :
          StartRecordingOn(outcome)
    /\ UNCHANGED obsVars

\* The same call, the rate the stream was opened with recorded.
StartRecordingRated ==
    /\ \E outcome \in {"ok", "open_raises", "start_raises"} :
          /\ StartRecordingOn(outcome)
          /\ stream_rate' = IF outcome = "open_raises" THEN stream_rate
                            ELSE config_rate
    /\ UNCHANGED <<cb_frame, cb_put, rec_kind, rec_text, fed, rec_read,
                   enqueued, dequeued, resVars, sfVars, config_rate,
                   fed_rates>>

\* defaultSampleRate of the devices PyAudio may list
DeviceRates == {16000, 44100, 48000}
DeviceLists ==
    {<<a>> : a \in DeviceRates}
        \cup {<<a, b>> : a \in DeviceRates, b \in DeviceRates}

\* for each device in turn: if its defaultSampleRate differs from
\* config.RATE, config.RATE = int(defaultSampleRate)
RECURSIVE RateAfterListing(_, _)
RateAfterListing(rate, devices) ==
    IF devices = <<>> THEN rate
    ELSE RateAfterListing(IF Head(devices) # rate THEN Head(devices)
                          ELSE rate,
                          Tail(devices))

\* device_manager.log_available_devices(), called on a constructed handler
\* whose PyAudio instance is still there
LogAvailableDevices ==
    /\ pc \in {"ready", "recording"}
    /\ audio # "None"
    /\ \E devices \in DeviceLists :
          config_rate' = RateAfterListing(config_rate, devices)
    /\ UNCHANGED <<segVars, replayVars, pipeVars, cb_frame, cb_put, rec_kind,
                   rec_text, fed, rec_read, enqueued, dequeued, resVars,
                   sfVars, stream_rate, fed_rates>>

\* cleanup() called by the program: the finally block, __exit__
CallCleanup ==
    /\ pc \in {"ready", "recording", "done", "raised_start"}
    /\ cleanups < MaxCleanups
    /\ EnterCleanup("done")
    /\ UNCHANGED <<segVars, replayVars, audio, audio_queue, stream, model,
                   recognizer, last_partial, result, cb_status, cleanup_ret,
                   callbacks, polls, cleanups, recognizer_rate, obsVars>>

\* while not self.audio_queue.empty(): self.audio_queue.get_nowait()
CleanupQueue ==
    /\ pc = "cleanup_queue"
    /\ IF audio_queue # <<>>
       THEN audio_queue' = Tail(audio_queue) /\ UNCHANGED pc
       ELSE pc' = "cleanup_stream" /\ UNCHANGED audio_queue
    /\ UNCHANGED <<segVars, replayVars, after, audio, is_running, stream,
                   model, recognizer, last_partial, result, cb_status,
                   cleanup_successful, cleanup_ret, callbacks, polls,
                   cleanups, recognizer_rate, obsVars>>

\* The stream step with a failure that ends cleanup at once, returning
\* False.
CleanupStream_ShortCircuit ==
    /\ pc = "cleanup_stream"
    /\ IF stream = "None"
       THEN /\ pc' = "cleanup_audio"
            /\ UNCHANGED <<stream, cleanup_successful, cleanup_ret, cleanups>>
       ELSE \E outcome \in {"ok", "stop_raises", "close_raises"} :
               /\ outcome = "stop_raises" => stream = "active"
               /\ stream' = CASE outcome = "ok" -> "None"
                              [] outcome = "stop_raises" -> stream
                              [] outcome = "close_raises" -> "stopped"
               /\ cleanup_successful' = (cleanup_successful /\ outcome = "ok")
               /\ IF outcome = "ok"
                  THEN pc' = "cleanup_audio"
                         /\ UNCHANGED <<cleanup_ret, cleanups>>
                  ELSE /\ pc' = after
                       /\ cleanup_ret' = FALSE
                       /\ cleanups' = cleanups + 1
    /\ UNCHANGED <<segVars, replayVars, after, audio, audio_queue, is_running,
                   model, recognizer, last_partial, result, cb_status,
                   callbacks, polls, recognizer_rate, obsVars>>

\* if self.stream: stop_stream() if active, close(), self.stream = None;
\* either call may raise, which leaves self.stream set
CleanupStream ==
    /\ pc = "cleanup_stream"
    /\ pc' = "cleanup_audio"
    /\ IF stream = "None"
       THEN UNCHANGED <<stream, cleanup_successful>>
       ELSE \E outcome \in {"ok", "stop_raises", "close_raises"} :
               /\ outcome = "stop_raises" => stream = "active"
               /\ stream' = CASE outcome = "ok" -> "None"
                              [] outcome = "stop_raises" -> stream
                              [] outcome = "close_raises" -> "stopped"
               /\ cleanup_successful' = (cleanup_successful /\ outcome = "ok")
    /\ UNCHANGED <<segVars, replayVars, after, audio, audio_queue, is_running,
                   model, recognizer, last_partial, result, cb_status,
                   cleanup_ret, callbacks, polls, cleanups, recognizer_rate,
                   obsVars>>

\* if self.audio: terminate(), self.audio = None; terminate() may raise.
\* Terminating PortAudio ends a stream that is still running.
CleanupAudio ==
    /\ pc = "cleanup_audio"
    /\ pc' = "cleanup_vosk"
    /\ IF audio = "None"
       THEN UNCHANGED <<audio, stream, cleanup_successful>>
       ELSE \E raises \in BOOLEAN :
               IF raises
               THEN cleanup_successful' = FALSE /\ UNCHANGED <<audio, stream>>
               ELSE /\ audio' = "None"
                    /\ stream' = IF stream \in {"active", "complete"}
                                 THEN "stopped" ELSE stream
                    /\ UNCHANGED cleanup_successful
    /\ UNCHANGED <<segVars, replayVars, after, audio_queue, is_running, model,
                   recognizer, last_partial, result, cb_status, cleanup_ret,
                   callbacks, polls, cleanups, recognizer_rate, obsVars>>

\* recognizer and model are set to None where the attribute exists; return
CleanupVosk ==
    /\ pc = "cleanup_vosk"
    /\ pc' = after
    /\ recognizer' = IF recognizer = "unset" THEN recognizer ELSE "None"
    /\ model' = IF model = "unset" THEN model ELSE "None"
    /\ cleanup_ret' = cleanup_successful
    /\ cleanups' = cleanups + 1
    /\ UNCHANGED <<segVars, replayVars, after, audio, audio_queue, is_running,
                   stream, last_partial, result, cb_status,
                   cleanup_successful, callbacks, polls, recognizer_rate,
                   obsVars>>

\* AudioHandler.__init__ up to the try block
InitPipeline ==
    /\ pc = "setup_devices"
    /\ after = "done"
    /\ audio = "PyAudio"
    /\ audio_queue = <<>>
    /\ is_running = FALSE
    /\ stream = "None"
    /\ model = "unset"
    /\ recognizer = "unset"
    /\ last_partial = None
    /\ result = None
    /\ cb_status = "paContinue"
    /\ cleanup_successful = TRUE
    /\ cleanup_ret = TRUE
    /\ callbacks = 0
    /\ polls = 0
    /\ cleanups = 0
    /\ recognizer_rate = 0
    /\ config_rate = RATE
    /\ stream_rate = 0

\* Nothing has been observed yet.
InitObservers ==
    /\ cb_frame = <<>>
    /\ cb_put = <<>>
    /\ rec_kind = "none"
    /\ rec_text = None
    /\ fed = <<>>
    /\ rec_read = "none"
    /\ enqueued = <<>>
    /\ dequeued = <<>>
    /\ rs_in = 0
    /\ rs_raised = FALSE
    /\ rs_out = 0
    /\ sf_channels = 2
    /\ sf_status = "not_started"
    /\ sf_queue = <<>>
    /\ sf_frame = <<>>
    /\ sf_put = <<>>
    /\ sf_callbacks = 0
    /\ fed_rates = {}

\* AudioHandler after __init__ and start_recording() have both succeeded
InitRecording ==
    /\ pc = "recording"
    /\ after = "done"
    /\ audio = "PyAudio"
    /\ audio_queue = <<>>
    /\ is_running = TRUE
    /\ stream = "active"
    /\ model = "loaded"
    /\ recognizer = "ready"
    /\ last_partial = None
    /\ result = None
    /\ cb_status = "paContinue"
    /\ cleanup_successful = TRUE
    /\ cleanup_ret = TRUE
    /\ callbacks = 0
    /\ polls = 0
    /\ cleanups = 0
    /\ recognizer_rate = RATE
    /\ config_rate = RATE
    /\ stream_rate = RATE

Init == InitSegmenter /\ InitReplay /\ InitPipeline /\ InitObservers

InitRunning == InitSegmenter /\ InitReplay /\ InitRecording /\ InitObservers

Next == UpdateStep
Spec == Init /\ [][Next]_vars

NextCap == UpdateLongStep
SpecCap == Init /\ [][NextCap]_vars

NextReplay == ReplayStep
SpecReplay == Init /\ [][NextReplay]_vars

NextPipeline ==
    \/ SetupDevices
    \/ InitializeVosk
    \/ StartRecording
    \/ AudioCallback
    \/ ProcessAudio
    \/ CallCleanup
    \/ CleanupQueue
    \/ CleanupStream
    \/ CleanupAudio
    \/ CleanupVosk
SpecPipeline == Init /\ [][NextPipeline]_vars

NextSingleFile == SingleFileSetup \/ SingleFileCallback
SpecSingleFile == Init /\ [][NextSingleFile]_vars

NextResample == ResampleCall
SpecResample == Init /\ [][NextResample]_vars

NextCapture == CaptureFrame
SpecCapture == InitRunning /\ [][NextCapture]_vars

NextDriver == AudioCallbackObserved \/ ProcessAudioObserved
SpecDriver == InitRunning /\ [][NextDriver]_vars

\* The handler from construction to the recognition loop,
\* log_available_devices among the calls the program may make, the rates in
\* use recorded.  cleanup() runs on the failure paths only.
NextRates ==
    \/ SetupDevices
    \/ InitializeVosk
    \/ LogAvailableDevices
    \/ StartRecordingRated
    \/ AudioCallbackObserved
    \/ ProcessAudioRated
    \/ CleanupQueue
    \/ CleanupStream
    \/ CleanupAudio
    \/ CleanupVosk
SpecRates == Init /\ [][NextRates]_vars

\* The stream's callback thread and the main loop, the main loop never
\* starved: neither is bounded by the other, and no cleanup is invoked.
NextMainLoop == AudioCallbackObserved \/ MainLoopIteration
SpecMainLoop ==
    InitRunning /\ [][NextMainLoop]_vars /\ WF_vars(MainLoopIteration)

----------------------------------------------------------------------------
(* Claims about the phrase segmenter *)

MaxChunkLen == CHOOSE m \in ChunkLens : \A x \in ChunkLens : x <= m

ShorterThanMs(x, ms) == x * 1000 < ms * RATE

C2_OnePhraseEndPerRun ==
    (LongerThanMs(run_voice, 250) /\ LongerThanMs(run_silence, 300))
        => run_events = 1

\* C2 (amended): a contiguous voiced run longer than 250 ms at whose last
\* voiced chunk the segmenter is Speaking, followed by silence longer than
\* 300 ms, produces exactly one phrase-end event: one is produced and no
\* second one while the silence continues.
C2_OnePhraseEndPerSpokenRun ==
    (run_speaking /\ LongerThanMs(run_voice, 250)
                  /\ LongerThanMs(run_silence, 300))
        => run_events = 1

\* The silence goes on after the phrase end of a long spoken run.
C2_Witness ==
    /\ run_speaking
    /\ LongerThanMs(run_voice, 250)
    /\ LongerThanMs(run_silence, 300)
    /\ run_events = 1
    /\ ~ret

\* C3: a voiced run shorter than 250 ms followed by silence longer than
\* 300 ms never produces a phrase-end event, whatever came before it.
\* Stated for a run that is the only voice of its phrase (phrase_voiced =
\* run_voice), so that an event can only be one emitted for that run.
C3_ShortRunNeverEmits ==
    (run_voice > 0 /\ phrase_voiced = run_voice
                   /\ ShorterThanMs(run_voice, 250)
                   /\ LongerThanMs(run_silence, 300))
        => run_events = 0

\* C4: a voiced run that reaches MAX_PHRASE_MS while the segmenter is
\* Speaking forces exactly one phrase-end, so the buffer never holds more
\* than MAX_PHRASE_MS worth of samples plus one chunk.
C4_CapForcesPhraseEnd ==
    /\ (run_speaking /\ is_voice /\ LongerThanMs(run_voice, MAX_PHRASE_MS))
          => run_events = 1
    /\ BufferLen(state_data) * 1000 <= MAX_PHRASE_MS * RATE + chunk_len * 1000

\* C5: a call that finds the segmenter Speaking with more than 300 ms of
\* silence and not more than 250 ms of voice leaves it Idle and emits
\* nothing.
C5_ShortPhraseDiscarded ==
    (calls > 0 /\ ~is_voice
       /\ LongerThanMs(state_data.silence_frames, 300)
       /\ ~LongerThanMs(state_data.voice_frames, 250))
        => (~state_data.is_speaking /\ ~ret)

\* C6: while a phrase is open and when it ends, voice_frames counts only
\* the voiced samples received since that phrase started.
C6_VoiceCountRestartsWithPhrase ==
    (state_data.is_speaking \/ ret)
        => state_data.voice_frames = phrase_voiced

\* C7: the segmenter goes from Idle to Speaking only on a voiced chunk that
\* arrives more than 300 ms after the last phrase end; a voiced chunk
\* arriving within 300 ms leaves is_speaking false and the buffer unchanged.
C7_StartOnlyAfterGap ==
    [][ /\ (~state_data.is_speaking /\ state_data'.is_speaking)
              => (is_voice' /\ clock' - state_data.last_phrase_end > 300)
        /\ (~state_data.is_speaking /\ calls' = calls + 1 /\ is_voice'
              /\ clock' - state_data.last_phrase_end <= 300)
              => (/\ ~state_data'.is_speaking
                  /\ state_data'.audio_buffer = state_data.audio_buffer)
      ]_vars

\* A voiced chunk has arrived within 300 ms of a phrase end and was ignored;
\* the buffer still holds the ended phrase.
C7_Witness ==
    /\ phrases > 0
    /\ is_voice
    /\ ~state_data.is_speaking
    /\ clock - state_data.last_phrase_end <= 300
    /\ state_data.audio_buffer # <<>>

\* C8: two runs started from equal state_data and fed the same recorded
\* (is_voice, chunk) sequence return the same values and pass through the
\* same segmenter states.
C8_ReplayAgrees ==
    /\ replay_ret = ret
    /\ replay_data.is_speaking = state_data.is_speaking
    /\ replay_data.voice_frames = state_data.voice_frames
    /\ replay_data.silence_frames = state_data.silence_frames
    /\ replay_data.audio_buffer = state_data.audio_buffer

\* C9 (as stated): at a phrase end the buffer is as long as the voiced run,
\* within one chunk (the largest chunk fed).  Stated for a phrase whose only
\* voice is that run (phrase_voiced = run_voice).
C9_BufferIsVoicedRun ==
    (ret /\ phrase_voiced = run_voice)
        => /\ BufferLen(state_data) - run_voice <= MaxChunkLen
           /\ run_voice - BufferLen(state_data) <= MaxChunkLen

\* C9 (amended): at a phrase end the buffer holds every chunk received since
\* the phrase started, voiced and silent, except the silent chunk that
\* crossed the silence threshold.
C9_BufferIsPhraseLessLastChunk ==
    ret => BufferLen(state_data) = phrase_voiced + phrase_silent - chunk_len

\* A phrase has ended whose buffer holds more than a chunk of trailing
\* silence.
C9_Witness ==
    /\ ret
    /\ phrase_voiced = run_voice
    /\ phrase_silent - chunk_len > MaxChunkLen
    /\ BufferLen(state_data) = phrase_voiced + phrase_silent - chunk_len

----------------------------------------------------------------------------
(* Claims about the transfer queue *)

\* C10: the number of chunks held in audio_queue never exceeds a fixed
\* capacity, however slowly the consumer polls.  Stated for the largest
\* capacity the producer can overrun within MaxCallbacks callbacks.
C10_QueueWithinCapacity ==
    Len(audio_queue) <= MaxCallbacks - 1

C12_MalformedFrameContinues ==
    cb_status = "paContinue" /\ stream # "complete"

\* C13: cleanup has stopped the stream before it discards queue contents or
\* releases resources, so that no callback can run from then on.
C13_StreamStoppedBeforeDrain ==
    pc \in {"cleanup_queue", "cleanup_stream", "cleanup_audio",
            "cleanup_vosk"} => stream # "active"

\* C14: when cleanup returns True after an orderly shutdown the queue is
\* empty, the stream is stopped and closed, and PyAudio and the recognizer
\* are released.
C14_CleanShutdown ==
    (pc = "done" /\ cleanups > 0 /\ cleanup_ret) =>
        /\ audio_queue = <<>>
        /\ stream = "None"
        /\ audio = "None"
        /\ recognizer = "None"

\* C15 as stated: on every fatal path cleanup has run to completion before
\* the exception propagates, any opened stream is closed, PyAudio is
\* terminated and the recognizer is released.
C15_FatalPathsRelease ==
    pc \in {"raised_init", "raised_start"} =>
        /\ cleanups > 0
        /\ stream = "None"
        /\ audio = "None"
        /\ recognizer # "ready" /\ model # "loaded"

\* C15: on every fatal path cleanup has run to completion before the
\* exception propagates, and the recognizer and model are released; the
\* stream is closed and PyAudio terminated whenever that cleanup found no
\* failing release call (it returned True); with a release call that raised,
\* the resource it was releasing is the only one that can remain.
C15_FatalPathsCleanUp ==
    pc \in {"raised_init", "raised_start"} =>
        /\ cleanups > 0
        /\ recognizer # "ready" /\ model # "loaded"
        /\ cleanup_ret => (stream = "None" /\ audio = "None")
        /\ ~cleanup_ret => (stream # "None" \/ audio # "None")

\* start_stream() raised, and the cleanup run by the except branch closed
\* the opened stream and released everything before the exception left.
C15_Witness ==
    /\ pc = "raised_start"
    /\ cleanups = 1
    /\ cleanup_ret
    /\ stream = "None" /\ audio = "None" /\ recognizer = "None"

----------------------------------------------------------------------------
(* Claims about the frame conditioner *)

\* the absolute value of a sample, as an integer
Magnitude(x) == IF x < 0 THEN -x ELSE x

RECURSIVE SumMagnitude(_)
SumMagnitude(chunk) ==
    IF chunk = <<>> THEN 0
    ELSE Magnitude(Head(chunk)) + SumMagnitude(Tail(chunk))

\* mean absolute amplitude / 32768 > VAD_THRESHOLD
EnergyAboveThreshold(chunk) ==
    SumMagnitude(chunk) * 1000
        > VAD_THRESHOLD_PER_MILLE * FULL_SCALE * Len(chunk)

\* C16: audio_callback enqueues exactly one chunk, the mono chunk, when the
\* mean absolute amplitude of the mono chunk divided by 32768 is strictly
\* above VAD_THRESHOLD, and enqueues nothing when it is at or below it.
C16_VoiceIsEnergyAboveThreshold ==
    cb_frame # <<>> =>
        LET mono == Downmix(cb_frame)
        IN  cb_put = IF EnergyAboveThreshold(mono) THEN <<mono>> ELSE <<>>

\* (l + r) / 2 rounded to the nearest integer, given twice the mean, under
\* the tie rules in use: half to even (np.rint, round), half away from
\* zero, half up.
RoundedHalves(sum) ==
    IF sum % 2 = 0 THEN {sum \div 2}
    ELSE LET down == (sum - 1) \div 2
             up == down + 1
         IN  {IF down % 2 = 0 THEN down ELSE up,
              IF sum > 0 THEN up ELSE down,
              up}

\* C17 as stated: the mono sample of a stereo pair (l, r) is (l + r) / 2
\* rounded to the nearest integer, and lies in [-32768, 32767].
C17_MonoIsRoundedMean ==
    cb_put # <<>> =>
        LET m == cb_put[1][1]
        IN  /\ m \in RoundedHalves(cb_frame[1] + cb_frame[2])
            /\ m >= -FULL_SCALE /\ m <= FULL_SCALE - 1

\* C17: the mono sample of a stereo pair (l, r) is (l + r) / 2 with its
\* fraction dropped (truncated toward zero), and lies in [-32768, 32767].
C17_MonoIsTruncatedMean ==
    cb_put # <<>> =>
        LET m == cb_put[1][1]
            sum == cb_frame[1] + cb_frame[2]
        IN  /\ \/ 2 * m = sum
               \/ sum > 0 /\ 2 * m = sum - 1
               \/ sum < 0 /\ 2 * m = sum + 1
            /\ m >= -FULL_SCALE /\ m <= FULL_SCALE - 1

\* A pair with a negative odd sum was downmixed and enqueued.
C17_Witness ==
    /\ cb_put # <<>>
    /\ cb_frame[1] + cb_frame[2] < 0
    /\ (cb_frame[1] + cb_frame[2]) % 2 = 1

----------------------------------------------------------------------------
(* Claims about the recognition driver *)

\* C18: every chunk process_audio passes to AcceptWaveform has first been
\* passed through AudioProcessor.resample_audio.
C18_FedChunksWereResampled ==
    \A i \in DOMAIN fed : fed[i].resampled

\* C19: the recognizer _initialize_vosk creates is initialised with
\* VOSK_RATE (16000), not with the hardware source rate.
C19_RecognizerAtVoskRate ==
    recognizer = "ready" => recognizer_rate = VOSK_RATE

\* C20: a process_audio call that reaches process_partial_result emits a
\* partial exactly when the text has more than 2 words and differs from the
\* most recently emitted partial; _last_partial changes only when a partial
\* is emitted, and then becomes that partial's text (so it is the most
\* recently emitted partial throughout); the same text fed twice in a row
\* yields None the second time.
C20_PartialDedupe ==
    [][polls' # polls =>
          /\ rec_kind' = "partial" =>
                /\ result' # None
                      <=> (Len(rec_text') > 2 /\ rec_text' # last_partial)
                /\ result' # None =>
                      /\ result' = <<"(Partial)">> \o rec_text'
                      /\ last_partial' = rec_text'
          /\ last_partial' # last_partial =>
                rec_kind' = "partial" /\ result' # None
          /\ (rec_kind = "partial" /\ rec_kind' = "partial"
                /\ rec_text' = rec_text) => result' = None
    ]_vars

\* A partial of more than 2 words was withheld because it repeats the
\* partial emitted last.
C20_Witness ==
    /\ rec_kind = "partial"
    /\ Len(rec_text) > 2
    /\ rec_text = last_partial
    /\ result = None

\* C21: a process_audio call that reaches process_recognition_result
\* returns the final text if and only if the text is non-empty and either
\* has more than one word or is, case-insensitively, one of yes, no, okay,
\* thanks; in every other case it returns None.
C21_FinalAccepted ==
    rec_kind = "final" =>
        LET words == Len(rec_text)
            allowed == words = 1
                         /\ Lower(rec_text[1]) \in {"yes", "no", "okay", "thanks"}
        IN  /\ (words > 1 \/ allowed) => (result = rec_text /\ result # None)
            /\ ~(words > 1 \/ allowed) => result = None

\* The single word "Yes" was returned as a final text.
C21_Witness ==
    rec_kind = "final" /\ rec_text = <<"Yes">> /\ result = <<"Yes">>

\* the process_audio calls in which an exception other than queue.Empty was
\* caught
ErrorKinds == {"undecodable", "raised"}

\* C22: a process_audio call in which the recognizer's payload cannot be
\* decoded (or another per-chunk error occurs) returns None to its caller
\* without raising, takes its chunk off the queue and leaves _last_partial
\* unchanged; the call after it dequeues the next chunk and handles it by
\* the ordinary rules.
C22_ErrorIsPerChunk ==
    [][polls' # polls =>
          /\ rec_kind' \in ErrorKinds =>
                /\ result' = None
                /\ pc' = pc
                /\ last_partial' = last_partial
                /\ audio_queue' = Tail(audio_queue)
                /\ recognizer' = recognizer
          /\ (rec_kind \in ErrorKinds /\ audio_queue # <<>>) =>
                /\ audio_queue' = Tail(audio_queue)
                /\ rec_kind' \in {"final", "partial", "undecodable"}
                /\ fed' = Append(fed, [chunk |-> Head(audio_queue),
                                       resampled |-> FALSE])
                /\ rec_kind' = "final" =>
                      result' = ProcessRecognitionResult(rec_text')
                /\ rec_kind' = "partial" =>
                      /\ result' = ProcessPartialResult(rec_text',
                                                        last_partial).ret
                      /\ last_partial' = ProcessPartialResult(rec_text',
                                                        last_partial).last
    ]_vars

\* An undecodable payload came after a partial had been emitted, with a
\* further chunk waiting on the queue.
C22_Witness ==
    /\ rec_kind = "undecodable"
    /\ result = None
    /\ last_partial # None
    /\ audio_queue # <<>>

\* C23: in every interleaving of audio_callback and process_audio the
\* chunks process_audio has dequeued are a prefix of the chunks the callback
\* has enqueued, in the same order, and the chunks still queued are exactly
\* the rest of that sequence: none reordered, skipped or dequeued twice.
C23_DequeuedIsPrefixOfEnqueued ==
    /\ Len(dequeued) <= Len(enqueued)
    /\ dequeued = SubSeq(enqueued, 1, Len(dequeued))
    /\ audio_queue = SubSeq(enqueued, Len(dequeued) + 1, Len(enqueued))

\* Three chunks were enqueued, two different ones of them have been
\* dequeued and the third is waiting.
C23_Witness ==
    /\ Len(dequeued) = 2
    /\ dequeued[1] # dequeued[2]
    /\ Len(enqueued) = 3
    /\ polls = 2
    /\ callbacks = 3

----------------------------------------------------------------------------
(* Claims about the resampler *)

\* C24 as stated: for every input length n, resample_audio returns exactly
\* round(n * VOSK_RATE / RATE) samples.
C24_LengthIsRounded ==
    2 * RATE * rs_out - RATE <= 2 * rs_in * VOSK_RATE
        /\ 2 * rs_in * VOSK_RATE < 2 * RATE * rs_out + RATE

\* C24: for every input length n, resample_audio returns exactly
\* floor(n * VOSK_RATE / RATE) samples when the resampling succeeds, and the
\* n samples it was given when the resampling raises.
C24_LengthIsTruncated ==
    IF rs_raised
    THEN rs_out = rs_in
    ELSE /\ RATE * rs_out <= rs_in * VOSK_RATE
         /\ rs_in * VOSK_RATE < RATE * (rs_out + 1)

\* A chunk of 2000 samples was resampled to 666 samples.
C24_Witness ==
    rs_in = 2000 /\ ~rs_raised /\ rs_out = 666

----------------------------------------------------------------------------
(* Further claims about the phrase segmenter *)

\* C25: update_speaking_state returns True only in a call with is_voice
\* false, made while is_speaking is true, in which the accumulated silence
\* (this chunk included) is above 300 ms and the accumulated voice above
\* 250 ms; that call sets is_speaking to false and last_phrase_end to the
\* time it read.  Every other call returns False and leaves last_phrase_end
\* as it was.
C25_TrueOnlyAtPhraseEnd ==
    [][calls' # calls =>
          /\ ret' =>
                /\ ~is_voice'
                /\ state_data.is_speaking
                /\ (state_data.silence_frames + chunk_len') * 1000
                       > 300 * RATE
                /\ state_data.voice_frames * 1000 > 250 * RATE
                /\ ~state_data'.is_speaking
                /\ state_data'.last_phrase_end = clock'
          /\ ~ret' =>
                state_data'.last_phrase_end = state_data.last_phrase_end
    ]_vars

\* A call has just returned True.
C25_Witness ==
    /\ ret
    /\ ~is_voice
    /\ ~state_data.is_speaking
    /\ state_data.last_phrase_end = clock

----------------------------------------------------------------------------
(* Further claims about the recognition driver *)

\* C26: a process_audio call that finds the queue empty returns None at
\* once: it makes no call to the recognizer, reads no result, and leaves the
\* queue, the recognizer and _last_partial as they were.
C26_EmptyQueueIsNoOp ==
    [][(polls' # polls /\ audio_queue = <<>>) =>
          /\ result' = None
          /\ rec_kind' = "empty"
          /\ rec_read' = "none"
          /\ fed' = fed
          /\ dequeued' = dequeued
          /\ audio_queue' = audio_queue
          /\ recognizer' = recognizer
          /\ last_partial' = last_partial
          /\ pc' = pc
    ]_vars

\* The queue was found empty after a partial had been emitted.
C26_Witness ==
    /\ rec_kind = "empty"
    /\ result = None
    /\ audio_queue = <<>>
    /\ last_partial # None

\* C27: a process_audio call removes at most one chunk from the queue, the
\* one at its head; for the chunk it removes AcceptWaveform is called
\* exactly once, with that chunk, and exactly one result is read after it:
\* Result() when the call returns a final text, PartialResult() when it
\* returns a partial.  No chunk is removed without being fed.
C27_OneChunkOneResult ==
    [][polls' # polls =>
          IF audio_queue = <<>>
          THEN audio_queue' = <<>> /\ fed' = fed /\ rec_read' = "none"
          ELSE /\ audio_queue' = Tail(audio_queue)
               /\ dequeued' = Append(dequeued, Head(audio_queue))
               /\ Len(fed') = Len(fed) + 1
               /\ SubSeq(fed', 1, Len(fed)) = fed
               /\ fed'[Len(fed')].chunk = Head(audio_queue)
               /\ rec_read' \in {"Result", "PartialResult"}
               /\ rec_kind' = "final" => rec_read' = "Result"
               /\ rec_kind' = "partial" => rec_read' = "PartialResult"
    ]_vars

\* Two calls each took a chunk and fed it; the second returned a final text.
C27_Witness ==
    /\ polls = 2
    /\ Len(dequeued) = 2
    /\ Len(fed) = 2
    /\ rec_read = "Result"
    /\ result # None

----------------------------------------------------------------------------
(* Further claims about the frame conditioner *)

\* C30: every chunk audio_callback has enqueued passes the quiet check of
\* process_audio: its maximum absolute amplitude is not below
\* VAD_THRESHOLD * 32768, so process_audio does not skip it.
C30_EnqueuedChunkIsNotQuiet ==
    /\ \A i \in DOMAIN audio_queue : ~TooQuiet(audio_queue[i])
    /\ \A i \in DOMAIN cb_put : ~TooQuiet(cb_put[i])

\* A chunk of two samples was enqueued whose mean amplitude is above the
\* threshold while one of its samples is silent.
C30_Witness ==
    /\ cb_put = <<<<700, 0>>>>
    /\ audio_queue # <<>>
    /\ audio_queue[Len(audio_queue)] = <<700, 0>>

----------------------------------------------------------------------------
(* Claims about cleanup *)

\* C28: cleanup goes through every release step whatever the earlier steps
\* did: the stream step is followed by the PyAudio step and that by the
\* release of recognizer and model; each of the first two either releases
\* its resource or, having raised, leaves it set and marks the cleanup
\* failed; cleanup then returns to its caller (it never raises), with
\* recognizer and model released, and returns False exactly when one of the
\* steps failed.
C28_CleanupAttemptsEveryStep ==
    [][/\ (pc = "cleanup_stream" /\ pc' # pc) =>
             /\ pc' = "cleanup_audio"
             /\ \/ stream' = "None" /\ cleanup_successful' = cleanup_successful
                \/ stream' # "None" /\ ~cleanup_successful'
       /\ (pc = "cleanup_audio" /\ pc' # pc) =>
             /\ pc' = "cleanup_vosk"
             /\ \/ audio' = "None" /\ cleanup_successful' = cleanup_successful
                \/ audio' # "None" /\ ~cleanup_successful'
       /\ (pc = "cleanup_vosk" /\ pc' # pc) =>
             /\ pc' = after
             /\ pc' \in {"done", "raised_init", "raised_start"}
             /\ recognizer' # "ready" /\ model' # "loaded"
             /\ cleanup_ret' = (stream = "None" /\ audio = "None")
    ]_vars

\* Closing the stream raised; PyAudio was terminated and the recognizer
\* released all the same, and cleanup returned False.
C28_Witness ==
    /\ pc = "done"
    /\ cleanups = 1
    /\ ~cleanup_ret
    /\ stream # "None"
    /\ audio = "None"
    /\ recognizer = "None"

----------------------------------------------------------------------------
(* Claims about the single-file variant *)

\* C29: in the single-file variant, with a device that yields a channel
\* count of 1, the chunk _audio_callback enqueues is the frame it was given,
\* unchanged, with as many samples as the frame.
C29_MonoDevicePassesThrough ==
    (sf_channels = 1 /\ sf_put # <<>>) =>
        /\ sf_put = <<sf_frame>>
        /\ Len(sf_put[1]) = Len(sf_frame)

\* C31: with the main loop calling process_audio again and again (weak
\* fairness on its iteration) and no cleanup invoked, every chunk the
\* callback has enqueued is eventually dequeued and passed to
\* AcceptWaveform: the i-th chunk put becomes the i-th chunk fed.
C31_EnqueuedIsEventuallyFed ==
    \A i \in 1 .. MaxCallbacks :
        (Len(enqueued) >= i)
            ~> (Len(fed) >= i /\ fed[i].chunk = enqueued[i])

\* two chunks or more were put, and each has since been dequeued and passed
\* to the recognizer in the order of the puts, leaving the queue empty
C31_Witness ==
    /\ Len(enqueued) >= 2
    /\ Len(dequeued) = Len(enqueued)
    /\ audio_queue = <<>>
    /\ Len(fed) = Len(enqueued)
    /\ \A i \in 1 .. Len(fed) : fed[i].chunk = enqueued[i]

\* the steps of a cleanup() call that follows a call which returned True
InLaterCleanup ==
    /\ cleanups >= 1
    /\ cleanup_ret = TRUE
    /\ \/ pc \in {"cleanup_queue", "cleanup_stream", "cleanup_audio",
                  "cleanup_vosk"}
       \/ pc' = "cleanup_queue"

\* C32: cleanup() is idempotent.  Every step of a cleanup() call made after
\* a call that returned True leaves the handler's state (queue, stream,
\* PyAudio, recognizer, model, is_running) as it was, records no failure,
\* and the call returns True.
C32_CleanupIsIdempotent ==
    [][InLaterCleanup =>
          /\ UNCHANGED <<audio_queue, stream, audio, recognizer, model>>
          /\ is_running' = FALSE
          /\ cleanup_successful' = TRUE
          /\ pc' \notin {"cleanup_queue", "cleanup_stream", "cleanup_audio",
                         "cleanup_vosk"} => cleanup_ret' = TRUE]_vars

\* C33: the sample rate the recognizer was initialised with equals the
\* sample rate of every chunk passed to AcceptWaveform: at each such call
\* the rate the chunk was captured at is the rate of the recognizer.
C33_RecognizerRateIsChunkRate ==
    \A p \in fed_rates : p.chunk = p.recognizer

====
